---- MODULE Spec2Model ----
(***************************************************************************)
(* State-machine model of the start-up routine ui() of                     *)
(* comfyui_app_a100.py: the bootstrap of the persistent volume, the git    *)
(* update of the installation, the migration and rewrite of the manager    *)
(* configuration, the update of the manager plugin, the dependency         *)
(* refresh, the download of the declared model files and the launch of     *)
(* the server.  The volume is shared state; every container that runs      *)
(* ui() has its own program counter and local history.                     *)
(***************************************************************************)
EXTENDS Integers, Sequences, FiniteSets, TLC

\* ------------------------------------------------------------------------
\* Program constants
\* ------------------------------------------------------------------------

Port == 8000

NumTasks == 6

\* (subdir, filename) of every entry of model_tasks, in declaration order
model_tasks ==
  << <<"unet/FLUX", "flux1-dev-Q8_0.gguf">>,
     <<"clip/FLUX", "t5-v1_1-xxl-encoder-Q8_0.gguf">>,
     <<"clip/FLUX", "clip_l.safetensors">>,
     <<"checkpoints", "flux1-dev-fp8-all-in-one.safetensors">>,
     <<"loras", "mjV6.safetensors">>,
     <<"vae/FLUX", "ae.safetensors">> >>

Tasks == 1..NumTasks

\* os.path.join(MODELS_DIR, sub, fn): the path below MODELS_DIR
Target(t) == <<model_tasks[t][1], model_tasks[t][2]>>

AllTargets == {Target(t) : t \in Tasks}

\* the text written to config.ini, line by line
config_content ==
  [exists |-> TRUE,
   text |-> <<"[default]", "network_mode = private", "security_level = weak",
              "log_to_file = false">>]

\* the directives of config_content: the lines after the section header
Directives(f) == {f.text[i] : i \in 2..Len(f.text)}

\* another content a config.ini can hold before a run
UserCfg ==
  [exists |-> TRUE,
   text |-> <<"[default]", "network_mode = public", "security_level = normal",
              "log_to_file = false", "bypass_ssl = true">>]

NoFile == [exists |-> FALSE, text |-> <<>>]

CfgValues == {NoFile, config_content, UserCfg}

\* a manager configuration directory: its config.ini, whether it holds the
\* .legacy-manager-backup subdirectory, and its other data files
DirStates == [exists : {TRUE}, cfg : CfgValues, bak : BOOLEAN,
              data : SUBSET {"snapshots"}]

EmptyDir == [exists |-> TRUE, cfg |-> NoFile, bak |-> FALSE, data |-> {}]

NoDir == [exists |-> FALSE, cfg |-> NoFile, bak |-> FALSE, data |-> {}]

NoProc == [listen |-> "none", port |-> 0, cwd |-> "none", COMFY_DIR |-> "none"]

\* the installation baked into the image at DEFAULT_COMFY_DIR: its git state
\* and whether it ships the manager plugin
ImageInstalls == [exists : {TRUE}, git : {"detached", "branch"},
                  plugin : {"absent", "branch"}]

\* DEFAULT_COMFY_DIR does not exist in the image
NoInstall == [exists |-> FALSE, git |-> "norepo", plugin |-> "absent"]

Containers == {"c1", "c2"}

\* ------------------------------------------------------------------------
\* Bounds
\* ------------------------------------------------------------------------

\* number of runs of ui() started against the volume
MaxRuns == 2

\* ------------------------------------------------------------------------
\* State
\* ------------------------------------------------------------------------
VARIABLES
  dataBase,   \* DATA_BASE exists
  marker,     \* DATA_BASE/main.py exists
  gitMain,    \* git state of DATA_BASE: "norepo", "detached", "branch"
  plugin,     \* custom_nodes/ComfyUI-Manager: "absent", "detached", "branch"
  legacy,     \* user/default/ComfyUI-Manager: NoDir or a directory
  mgr,        \* user/__manager: NoDir or a directory
  models,     \* paths present below MODELS_DIR
  image,      \* the installation at DEFAULT_COMFY_DIR, the same in every container
  live,       \* containers the platform runs
  budget,     \* number of runs the platform starts
  pc,         \* position of each container in ui()
  idx,        \* position of the model_tasks loop
  boot,       \* what the bootstrap did: "none", "copied", "skeleton"
  atStart,    \* models present when the run started
  emptyStart, \* the volume was empty when the run started
  migCase,    \* how the configuration directories stood when the run started
  migrated,   \* this run deleted the legacy directory
  attempted,  \* tasks for which hf_download was called
  skipped,    \* tasks found present and skipped
  dlFailed,   \* tasks whose hf_download raised
  trace,      \* the steps of the run, in the order they began or ended
  mainCmds,   \* git commands run in DATA_BASE
  plugCmds,   \* commands run for the manager plugin
  plugSeen,   \* plugin state found by the existence check
  crash,      \* the uncaught exception that ended the run, if any
  failed,     \* some external command or download failed in this run
  server,     \* the child process launched by the run
  runs,       \* number of runs started so far
  cfgAfter    \* config.ini content at the end of each completed run

volume == <<dataBase, marker, gitMain, plugin, legacy, mgr, models>>

locals == <<pc, idx, boot, atStart, emptyStart, migCase, migrated, attempted, skipped, dlFailed, trace, mainCmds, plugCmds,
            plugSeen, crash, failed, server>>

vars == <<volume, image, live, budget, locals, runs, cfgAfter>>

NoCrash == [at |-> "none", why |-> "none"]

\* ------------------------------------------------------------------------
\* Helpers
\* ------------------------------------------------------------------------

Goto(c, l) == pc' = [pc EXCEPT ![c] = l]

Log(c, ev) == trace' = [trace EXCEPT ![c] = Append(@, ev)]

Fail(c) == failed' = [failed EXCEPT ![c] = TRUE]

Raise(c, where, why) ==
  /\ crash' = [crash EXCEPT ![c] = [at |-> where, why |-> why]]
  /\ pc' = [pc EXCEPT ![c] = "crashed"]

HasContents(d) == d # NoDir /\ (d.cfg # NoFile \/ d.bak \/ d.data # {})

\* shutil.copytree(src, dst, dirs_exist_ok=True): every entry of src is
\* copied over dst, entries only in dst are kept
CopyTree(src, dst) ==
  LET base == IF dst = NoDir THEN EmptyDir ELSE dst
  IN [exists |-> TRUE,
      cfg  |-> IF src.cfg # NoFile THEN src.cfg ELSE base.cfg,
      bak  |-> base.bak \/ src.bak,
      data |-> base.data \cup src.data]

\* os.makedirs(d, exist_ok=True)
MakeDirs(d) == IF d = NoDir THEN EmptyDir ELSE d

\* the config file is written only when it does not exist yet
WriteConfigIfMissing(d, content) ==
  IF MakeDirs(d).cfg = NoFile
    THEN [MakeDirs(d) EXCEPT !.cfg = content]
    ELSE MakeDirs(d)

\* open(path, "w"); f.write(content)
WriteConfig(d, content) == [MakeDirs(d) EXCEPT !.cfg = content]

\* the ways a tree operation on directory d can end
TreeOpOutcomes(d) == IF d = NoDir THEN {"enoent"} ELSE {"ok", "io"}

\* ------------------------------------------------------------------------
\* Initial states
\* ------------------------------------------------------------------------

TypeVolume ==
  /\ dataBase \in BOOLEAN
  /\ marker \in BOOLEAN
  /\ gitMain \in {"norepo", "detached", "branch"}
  /\ plugin \in {"absent", "detached", "branch"}
  /\ legacy \in DirStates \cup {NoDir}
  /\ mgr \in DirStates \cup {NoDir}
  /\ models \in SUBSET AllTargets

\* everything on the volume lives below DATA_BASE
WellFormedVolume ==
  ~dataBase => /\ ~marker /\ gitMain = "norepo" /\ plugin = "absent"
               /\ legacy = NoDir /\ mgr = NoDir /\ models = {}

InitLocals ==
  /\ pc = [c \in Containers |-> "idle"]
  /\ idx = [c \in Containers |-> 1]
  /\ boot = [c \in Containers |-> "none"]
  /\ atStart = [c \in Containers |-> {}]
  /\ emptyStart = [c \in Containers |-> FALSE]
  /\ migCase = [c \in Containers |-> "other"]
  /\ migrated = [c \in Containers |-> FALSE]
  /\ attempted = [c \in Containers |-> {}]
  /\ skipped = [c \in Containers |-> {}]
  /\ dlFailed = [c \in Containers |-> {}]
  /\ trace = [c \in Containers |-> <<>>]
  /\ mainCmds = [c \in Containers |-> <<>>]
  /\ plugCmds = [c \in Containers |-> <<>>]
  /\ plugSeen = [c \in Containers |-> "unseen"]
  /\ crash = [c \in Containers |-> NoCrash]
  /\ failed = [c \in Containers |-> FALSE]
  /\ server = [c \in Containers |-> NoProc]
  /\ runs = 0
  /\ cfgAfter = <<>>

\* an image whose installation is on a detached HEAD and ships the plugin
DefaultImage == [exists |-> TRUE, git |-> "detached", plugin |-> "branch"]

\* a manager directory that was configured and used before
UsedDir == [EmptyDir EXCEPT !.cfg = UserCfg, !.bak = TRUE,
                            !.data = {"snapshots"}]

\* one run of one container (max_containers=1) from any layout of the
\* volume, with the model directory empty or complete
Init ==
  /\ TypeVolume /\ WellFormedVolume
  /\ mgr \in {NoDir, EmptyDir, UsedDir, [EmptyDir EXCEPT !.cfg = config_content]}
  /\ models \in {{}, AllTargets}
  /\ image \in IF marker THEN {DefaultImage} ELSE ImageInstalls \cup {NoInstall}
  /\ live = {"c1"}
  /\ budget = 1
  /\ InitLocals

\* runs in succession (container restarts) on a volume that holds an
\* installation or still lacks it, with any subset of the model files
InitRerun ==
  /\ dataBase = TRUE
  /\ marker \in BOOLEAN
  /\ gitMain = IF marker THEN "branch" ELSE "norepo"
  /\ plugin = IF marker THEN "branch" ELSE "absent"
  /\ legacy \in {NoDir, UsedDir}
  /\ mgr = IF legacy = NoDir THEN UsedDir ELSE NoDir
  /\ models \in SUBSET AllTargets
  /\ image \in IF marker THEN {DefaultImage} ELSE {DefaultImage, NoInstall}
  /\ live = {"c1"}
  /\ budget = MaxRuns
  /\ InitLocals

\* one or two containers, each running ui() once against the same volume,
\* which holds a
\* legacy configuration directory and all model files but the last; the
\* installation is there or still to be copied from the image
InitConc ==
  /\ dataBase = TRUE
  /\ marker \in BOOLEAN
  /\ gitMain = IF marker THEN "detached" ELSE "norepo"
  /\ plugin = "absent"
  /\ legacy = UsedDir
  /\ mgr = NoDir
  /\ models = AllTargets \ {Target(NumTasks)}
  /\ image \in IF marker THEN {DefaultImage} ELSE {DefaultImage, NoInstall}
  /\ live \in {{"c1"}, Containers}
  /\ budget = Cardinality(live)
  /\ InitLocals

\* ------------------------------------------------------------------------
\* Groups of variables an action leaves alone
\* ------------------------------------------------------------------------

snap == <<atStart, emptyStart, migCase>>

dl == <<idx, attempted, skipped, dlFailed>>

ghost == <<image, live, budget, runs, cfgAfter>>

mig == <<migrated>>

\* ------------------------------------------------------------------------
\* A run of ui()
\* ------------------------------------------------------------------------

\* the start situation of the migration: the legacy directory has contents and
\* the new directory does not exist ("legacy_only"), the same with a legacy
\* config.ini that differs from the fixed one ("legacy_own_config"), or
\* anything else
MigCaseOf(l, m) ==
  IF HasContents(l) /\ m = NoDir
    THEN IF l.cfg # NoFile /\ l.cfg # config_content
           THEN "legacy_own_config" ELSE "legacy_only"
    ELSE "other"

\* the platform starts (or restarts) the container: ui() is entered
Start(c) ==
  /\ c \in live
  /\ pc[c] \in {"idle", "done", "crashed"}
  /\ runs < budget
  /\ runs' = runs + 1
  /\ pc' = [pc EXCEPT ![c] = "boot_check"]
  /\ idx' = [idx EXCEPT ![c] = 1]
  /\ boot' = [boot EXCEPT ![c] = "none"]
  /\ atStart' = [atStart EXCEPT ![c] = models]
  /\ emptyStart' = [emptyStart EXCEPT ![c] = ~dataBase]
  /\ migCase' = [migCase EXCEPT ![c] = MigCaseOf(legacy, mgr)]
  /\ migrated' = [migrated EXCEPT ![c] = FALSE]
  /\ attempted' = [attempted EXCEPT ![c] = {}]
  /\ skipped' = [skipped EXCEPT ![c] = {}]
  /\ dlFailed' = [dlFailed EXCEPT ![c] = {}]
  /\ trace' = [trace EXCEPT ![c] = <<"bootstrap">>]
  /\ mainCmds' = [mainCmds EXCEPT ![c] = <<>>]
  /\ plugCmds' = [plugCmds EXCEPT ![c] = <<>>]
  /\ plugSeen' = [plugSeen EXCEPT ![c] = "unseen"]
  /\ crash' = [crash EXCEPT ![c] = NoCrash]
  /\ failed' = [failed EXCEPT ![c] = FALSE]
  /\ server' = [server EXCEPT ![c] = NoProc]
  /\ UNCHANGED <<volume, image, live, budget, cfgAfter>>

\* if not os.path.exists(os.path.join(DATA_BASE, "main.py"))
BootCheck(c) ==
  /\ pc[c] = "boot_check"
  /\ IF marker
       THEN /\ Goto(c, "main_symref")
            /\ Log(c, "update_main")
       ELSE /\ Goto(c, "boot_default")
            /\ UNCHANGED trace
  /\ UNCHANGED <<volume, ghost, snap, mig, dl, boot, mainCmds, plugCmds, plugSeen,
                 crash, failed, server>>

\* the copy lands in a directory nested below DATA_BASE
BootCopyNested(c) ==
  /\ pc[c] = "boot_default"
  /\ image.exists
  /\ \/ /\ dataBase' = TRUE
        /\ boot' = [boot EXCEPT ![c] = "copied"]
        /\ Goto(c, "main_symref")
        /\ Log(c, "update_main")
        /\ UNCHANGED crash
     \/ /\ Raise(c, "bootstrap_copy", "io")
        /\ UNCHANGED <<dataBase, boot, trace>>
  /\ UNCHANGED <<marker, gitMain, plugin, legacy, mgr, models, ghost, snap,
                 mig, dl, mainCmds, plugCmds, plugSeen, failed, server>>

\* os.path.exists(DEFAULT_COMFY_DIR) holds: cp -r DEFAULT_COMFY_DIR DATA_ROOT/
BootCopy(c) ==
  /\ pc[c] = "boot_default"
  /\ image.exists
  /\ \/ /\ dataBase' = TRUE
        /\ marker' = TRUE
        /\ gitMain' = image.git
        /\ plugin' = IF image.plugin # "absent" THEN image.plugin ELSE plugin
        /\ boot' = [boot EXCEPT ![c] = "copied"]
        /\ Goto(c, "main_symref")
        /\ Log(c, "update_main")
        /\ UNCHANGED crash
     \/ /\ Raise(c, "bootstrap_copy", "io")
        /\ UNCHANGED <<dataBase, marker, gitMain, plugin, boot, trace>>
  /\ UNCHANGED <<legacy, mgr, models, ghost, snap, mig, dl, mainCmds, plugCmds,
                 plugSeen, failed, server>>

\* DEFAULT_COMFY_DIR does not exist: os.makedirs(DATA_BASE, exist_ok=True)
BootSkeleton(c) ==
  /\ pc[c] = "boot_default"
  /\ ~image.exists
  /\ dataBase' = TRUE
  /\ boot' = [boot EXCEPT ![c] = "skeleton"]
  /\ Goto(c, "main_symref")
  /\ Log(c, "update_main")
  /\ UNCHANGED <<marker, gitMain, plugin, legacy, mgr, models, ghost, snap, mig, dl,
                 mainCmds, plugCmds, plugSeen, crash, failed, server>>

\* the plugin update follows the backend update directly
EndMainUpdateToPlugin(c) ==
  /\ Goto(c, "plug_check")
  /\ Log(c, "update_main_done")

\* leaving the try block of the backend update
EndMainUpdate(c) ==
  /\ Goto(c, "mig_check")
  /\ Log(c, "update_main_done")

\* os.chdir(DATA_BASE); git symbolic-ref HEAD
MainSymref(c) ==
  /\ pc[c] = "main_symref"
  /\ mainCmds' = [mainCmds EXCEPT ![c] = Append(@, "symbolic-ref")]
  /\ IF gitMain = "branch"
       THEN Goto(c, "main_config")
       ELSE Goto(c, "main_checkout")
  /\ UNCHANGED <<volume, ghost, snap, mig, dl, boot, trace, plugCmds, plugSeen,
                 crash, failed, server>>

\* git checkout -B master origin/master; a tracked file that is missing from
\* the working tree can be written again by the checkout
MainCheckout(c) ==
  /\ pc[c] = "main_checkout"
  /\ mainCmds' = [mainCmds EXCEPT ![c] = Append(@, "checkout")]
  /\ \/ /\ gitMain # "norepo"
        /\ gitMain' = "branch"
        /\ marker' \in {marker, TRUE}
        /\ Goto(c, "main_config")
        /\ UNCHANGED <<trace, failed>>
     \/ /\ Fail(c)
        /\ EndMainUpdate(c)
        /\ UNCHANGED <<gitMain, marker>>
  /\ UNCHANGED <<dataBase, plugin, legacy, mgr, models, ghost, snap, mig,
                 dl, boot, plugCmds, plugSeen, crash, server>>

\* git config pull.ff only
MainConfig(c) ==
  /\ pc[c] = "main_config"
  /\ mainCmds' = [mainCmds EXCEPT ![c] = Append(@, "config")]
  /\ \/ /\ gitMain # "norepo"
        /\ Goto(c, "main_pull")
        /\ UNCHANGED <<trace, failed>>
     \/ /\ Fail(c)
        /\ EndMainUpdate(c)
  /\ UNCHANGED <<volume, ghost, snap, mig, dl, boot, plugCmds, plugSeen, crash,
                 server>>

\* git pull --ff-only; a tracked file that is missing from the working tree
\* can be written again by the merge
MainPull(c) ==
  /\ pc[c] = "main_pull"
  /\ mainCmds' = [mainCmds EXCEPT ![c] = Append(@, "pull")]
  /\ \/ /\ gitMain = "branch"
        /\ marker' \in {marker, TRUE}
        /\ UNCHANGED failed
     \/ /\ Fail(c)
        /\ UNCHANGED marker
  /\ EndMainUpdate(c)
  /\ UNCHANGED <<dataBase, gitMain, plugin, legacy, mgr, models, ghost, snap, mig, dl, boot, plugCmds, plugSeen, crash,
                 server>>

\* if os.path.exists(legacy_dir)
MigCheck(c) ==
  /\ pc[c] = "mig_check"
  /\ Log(c, "migrate")
  /\ IF legacy # NoDir
       THEN Goto(c, "mig_mkdir")
       ELSE Goto(c, "bak_check")
  /\ UNCHANGED <<volume, ghost, snap, mig, dl, boot, mainCmds, plugCmds, plugSeen,
                 crash, failed, server>>

\* the legacy directory is deleted before it is copied
MigMkdirRemoves(c) ==
  /\ pc[c] = "mig_mkdir"
  /\ mgr' = MakeDirs(mgr)
  /\ legacy' = NoDir
  /\ Goto(c, "mig_copy")
  /\ UNCHANGED <<dataBase, marker, gitMain, plugin, models, ghost, snap, mig,
                 dl, boot, trace, mainCmds, plugCmds, plugSeen, crash, failed,
                 server>>

\* os.makedirs(manager_config_dir, exist_ok=True)
MigMkdir(c) ==
  /\ pc[c] = "mig_mkdir"
  /\ mgr' = MakeDirs(mgr)
  /\ Goto(c, "mig_copy")
  /\ UNCHANGED <<dataBase, marker, gitMain, plugin, legacy, models, ghost,
                 snap, mig, dl, boot, trace, mainCmds, plugCmds, plugSeen, crash,
                 failed, server>>

\* shutil.copytree(legacy_dir, manager_config_dir, dirs_exist_ok=True)
MigCopy(c) ==
  /\ pc[c] = "mig_copy"
  /\ \E o \in TreeOpOutcomes(legacy) :
       IF o = "ok"
         THEN /\ mgr' = CopyTree(legacy, mgr)
              /\ Goto(c, "mig_remove")
              /\ UNCHANGED crash
         ELSE /\ Raise(c, "copytree", o)
              /\ UNCHANGED mgr
  /\ UNCHANGED <<dataBase, marker, gitMain, plugin, legacy, models, ghost,
                 snap, mig, dl, boot, trace, mainCmds, plugCmds, plugSeen, failed,
                 server>>

\* the legacy directory is left in place after the copy
MigRemoveKeeps(c) ==
  /\ pc[c] = "mig_remove"
  /\ Goto(c, "bak_check")
  /\ UNCHANGED <<volume, ghost, snap, mig, dl, boot, trace, mainCmds, plugCmds,
                 plugSeen, crash, failed, server>>

\* shutil.rmtree(legacy_dir)
MigRemove(c) ==
  /\ pc[c] = "mig_remove"
  /\ \E o \in TreeOpOutcomes(legacy) :
       IF o = "ok"
         THEN /\ legacy' = NoDir
              /\ migrated' = [migrated EXCEPT ![c] = TRUE]
              /\ Goto(c, "bak_check")
              /\ UNCHANGED crash
         ELSE /\ Raise(c, "rmtree_legacy", o)
              /\ UNCHANGED <<legacy, migrated>>
  /\ UNCHANGED <<dataBase, marker, gitMain, plugin, mgr, models, ghost, snap,
                 dl, boot, trace, mainCmds, plugCmds, plugSeen, failed,
                 server>>

\* if os.path.exists(backup_dir)
BakCheck(c) ==
  /\ pc[c] = "bak_check"
  /\ IF mgr # NoDir /\ mgr.bak
       THEN Goto(c, "bak_remove")
       ELSE Goto(c, "rewrite")
  /\ UNCHANGED <<volume, ghost, snap, mig, dl, boot, trace, mainCmds, plugCmds,
                 plugSeen, crash, failed, server>>

\* the backup subdirectory as a directory of its own
BackupDir(d) == IF d # NoDir /\ d.bak THEN EmptyDir ELSE NoDir

\* shutil.rmtree(backup_dir)
BakRemove(c) ==
  /\ pc[c] = "bak_remove"
  /\ \E o \in TreeOpOutcomes(BackupDir(mgr)) :
       IF o = "ok"
         THEN /\ mgr' = [mgr EXCEPT !.bak = FALSE]
              /\ Goto(c, "rewrite")
              /\ UNCHANGED crash
         ELSE /\ Raise(c, "rmtree_backup", o)
              /\ UNCHANGED mgr
  /\ UNCHANGED <<dataBase, marker, gitMain, plugin, legacy, models, ghost,
                 snap, mig, dl, boot, trace, mainCmds, plugCmds, plugSeen, failed,
                 server>>

\* os.makedirs(manager_config_dir, exist_ok=True); open(manager_config_path,
\* "w"); f.write(config_content)
ConfigRewrite(c) ==
  /\ pc[c] = "rewrite"
  /\ mgr' = WriteConfig(mgr, config_content)
  /\ Log(c, "rewrite")
  /\ Goto(c, "plug_check")
  /\ UNCHANGED <<dataBase, marker, gitMain, plugin, legacy, models, ghost,
                 snap, mig, dl, boot, mainCmds, plugCmds, plugSeen, crash, failed,
                 server>>

\* the pull is run whether or not the plugin directory exists
PlugCheckAlwaysPulls(c) ==
  /\ pc[c] = "plug_check"
  /\ plugSeen' = [plugSeen EXCEPT ![c] = plugin]
  /\ Log(c, "update_plugin")
  /\ Goto(c, "plug_config")
  /\ UNCHANGED <<volume, ghost, snap, mig, dl, boot, mainCmds, plugCmds, crash,
                 failed, server>>

\* if os.path.exists(manager_dir)
PlugCheck(c) ==
  /\ pc[c] = "plug_check"
  /\ plugSeen' = [plugSeen EXCEPT ![c] = plugin]
  /\ Log(c, "update_plugin")
  /\ IF plugin # "absent"
       THEN Goto(c, "plug_config")
       ELSE Goto(c, "plug_install")
  /\ UNCHANGED <<volume, ghost, snap, mig, dl, boot, mainCmds, plugCmds, crash,
                 failed, server>>

\* leaving the update or the install of the manager plugin
EndPluginUpdate(c) ==
  /\ Goto(c, "pip_upgrade")
  /\ Log(c, "update_plugin_done")

\* os.chdir(manager_dir); git config pull.ff only
PlugConfig(c) ==
  /\ pc[c] = "plug_config"
  /\ plugCmds' = [plugCmds EXCEPT ![c] = Append(@, "config")]
  /\ \/ /\ Goto(c, "plug_pull")
        /\ UNCHANGED <<trace, failed>>
     \/ /\ Fail(c)
        /\ EndPluginUpdate(c)
  /\ UNCHANGED <<volume, ghost, snap, mig, dl, boot, mainCmds, plugSeen, crash,
                 server>>

\* git pull --ff-only in manager_dir; os.chdir(DATA_BASE)
PlugPull(c) ==
  /\ pc[c] = "plug_pull"
  /\ plugCmds' = [plugCmds EXCEPT ![c] = Append(@, "pull")]
  /\ \/ /\ plugin = "branch"
        /\ UNCHANGED failed
     \/ Fail(c)
  /\ EndPluginUpdate(c)
  /\ UNCHANGED <<volume, ghost, snap, mig, dl, boot, mainCmds, plugSeen, crash,
                 server>>

\* comfy node install ComfyUI-Manager
PlugInstall(c) ==
  /\ pc[c] = "plug_install"
  /\ plugCmds' = [plugCmds EXCEPT ![c] = Append(@, "install")]
  /\ \/ /\ plugin' \in {plugin, "branch"}
        /\ UNCHANGED failed
     \/ /\ Fail(c)
        /\ UNCHANGED plugin
  /\ EndPluginUpdate(c)
  /\ UNCHANGED <<dataBase, marker, gitMain, legacy, mgr, models, ghost, snap, mig,
                 dl, boot, mainCmds, plugSeen, crash, server>>

\* a best-effort command of the dependency refresh: it succeeds, or it fails
\* and the failure is printed
BestEffort(c, from, to) ==
  /\ pc[c] = from
  /\ Goto(c, to)
  /\ \/ UNCHANGED failed
     \/ Fail(c)
  /\ UNCHANGED <<volume, ghost, snap, mig, dl, boot, mainCmds, plugCmds, plugSeen,
                 crash, server>>

\* pip install --no-cache-dir --upgrade pip
PipUpgrade(c) ==
  /\ BestEffort(c, "pip_upgrade", "cli_upgrade")
  /\ Log(c, "deps")

\* pip install --no-cache-dir --upgrade comfy-cli
ComfyCliUpgrade(c) ==
  /\ BestEffort(c, "cli_upgrade", "frontend_reqs")
  /\ UNCHANGED trace

\* pip install -r requirements.txt when the file exists
FrontendReqs(c) ==
  /\ BestEffort(c, "frontend_reqs", "manager_reqs")
  /\ UNCHANGED trace

\* pip install -r manager_requirements.txt when the file exists
ManagerReqs(c) ==
  /\ BestEffort(c, "manager_reqs", "ensure_dirs")
  /\ UNCHANGED trace

\* for d in [CUSTOM_NODES_DIR, MODELS_DIR, TMP_DL]: os.makedirs(d, exist_ok=True)
EnsureDirs(c) ==
  /\ pc[c] = "ensure_dirs"
  /\ dataBase' = TRUE
  /\ Log(c, "assets")
  /\ Goto(c, "dl_loop")
  /\ UNCHANGED <<marker, gitMain, plugin, legacy, mgr, models, ghost, snap, mig, dl,
                 boot, mainCmds, plugCmds, plugSeen, crash, failed, server>>

\* the next iteration of "for sub, fn, repo, subf in model_tasks", or the
\* statement after the loop
NextTask(c) ==
  /\ idx' = [idx EXCEPT ![c] = @ + 1]
  /\ pc' = [pc EXCEPT ![c] = IF idx[c] + 1 > NumTasks THEN "extra" ELSE "dl_loop"]

\* the exception handler encloses the whole loop: the first failure ends it
DownloadErrorBreaks(c) ==
  /\ dlFailed' = [dlFailed EXCEPT ![c] = @ \cup {idx[c]}]
  /\ Fail(c)
  /\ idx' = idx
  /\ pc' = [pc EXCEPT ![c] = "extra"]

\* except Exception as e: print(f"Error downloading {fn}: {e}")
DownloadError(c) ==
  /\ dlFailed' = [dlFailed EXCEPT ![c] = @ \cup {idx[c]}]
  /\ Fail(c)
  /\ NextTask(c)

\* hf_download is called without the existence check
ExamineNoCheck(c) ==
  /\ pc[c] = "dl_loop"
  /\ attempted' = [attempted EXCEPT ![c] = @ \cup {idx[c]}]
  /\ Goto(c, "hf_fetch")
  /\ UNCHANGED <<volume, ghost, snap, mig, idx, skipped, dlFailed, boot, trace,
                 mainCmds, plugCmds, plugSeen, crash, failed, server>>

\* target = os.path.join(MODELS_DIR, sub, fn); if not os.path.exists(target):
\* hf_download is called, else the task is skipped
Examine(c) ==
  /\ pc[c] = "dl_loop"
  /\ IF Target(idx[c]) \in models
       THEN /\ skipped' = [skipped EXCEPT ![c] = @ \cup {idx[c]}]
            /\ NextTask(c)
            /\ UNCHANGED attempted
       ELSE /\ attempted' = [attempted EXCEPT ![c] = @ \cup {idx[c]}]
            /\ Goto(c, "hf_fetch")
            /\ UNCHANGED <<idx, skipped>>
  /\ UNCHANGED <<volume, ghost, snap, mig, dlFailed, boot, trace, mainCmds,
                 plugCmds, plugSeen, crash, failed, server>>

\* out = hf_hub_download(repo_id, filename, subfolder, local_dir=TMP_DL)
HfFetch(c) ==
  /\ pc[c] = "hf_fetch"
  /\ \/ /\ Goto(c, "hf_makedirs")
        /\ UNCHANGED <<idx, dlFailed, failed>>
     \/ DownloadError(c)
  /\ UNCHANGED <<volume, ghost, snap, mig, attempted, skipped, boot, trace,
                 mainCmds, plugCmds, plugSeen, crash, server>>

\* os.makedirs(os.path.join(MODELS_DIR, subdir), exist_ok=True)
HfMakedirs(c) ==
  /\ pc[c] = "hf_makedirs"
  /\ \/ /\ Goto(c, "hf_move")
        /\ UNCHANGED <<idx, dlFailed, failed>>
     \/ DownloadError(c)
  /\ UNCHANGED <<volume, ghost, snap, mig, attempted, skipped, boot, trace,
                 mainCmds, plugCmds, plugSeen, crash, server>>

\* the downloaded file is left in TMP_DL
HfMoveLeavesTmp(c) ==
  /\ pc[c] = "hf_move"
  /\ \/ /\ NextTask(c)
        /\ UNCHANGED <<dlFailed, failed>>
     \/ DownloadError(c)
  /\ UNCHANGED <<volume, ghost, snap, mig, attempted, skipped, boot, trace,
                 mainCmds, plugCmds, plugSeen, crash, server>>

\* shutil.move(out, os.path.join(target, filename))
HfMove(c) ==
  /\ pc[c] = "hf_move"
  /\ \/ /\ models' = models \cup {Target(idx[c])}
        /\ NextTask(c)
        /\ UNCHANGED <<dlFailed, failed>>
     \/ /\ DownloadError(c)
        /\ UNCHANGED models
  /\ UNCHANGED <<dataBase, marker, gitMain, plugin, legacy, mgr, ghost, snap, mig,
                 attempted, skipped, boot, trace, mainCmds, plugCmds, plugSeen,
                 crash, server>>

\* for cmd in extra_cmds: subprocess.run(cmd, check=False); a non-zero return
\* code or an exception is printed
ExtraCmds(c) ==
  /\ pc[c] = "extra"
  /\ Goto(c, "launch")
  /\ Log(c, "handoff")
  /\ \/ UNCHANGED failed
     \/ Fail(c)
  /\ UNCHANGED <<volume, ghost, snap, mig, dl, boot, mainCmds, plugCmds, plugSeen,
                 crash, server>>

\* cmd = ["comfy", "launch", "--", "--listen", "0.0.0.0", "--port", "8000", ...]
LaunchCmd == [listen |-> "0.0.0.0", port |-> Port, cwd |-> "DATA_BASE",
              COMFY_DIR |-> "DATA_BASE"]

\* the config.ini the served application finds
ConfigFile == IF mgr = NoDir THEN NoFile ELSE mgr.cfg

\* os.environ["COMFY_DIR"] = DATA_BASE; subprocess.Popen(cmd, cwd=DATA_BASE)
Launch(c) ==
  /\ pc[c] = "launch"
  /\ \/ /\ server' = [server EXCEPT ![c] = LaunchCmd]
        /\ Goto(c, "done")
        /\ cfgAfter' = Append(cfgAfter, ConfigFile)
        /\ UNCHANGED crash
     \/ /\ Raise(c, "launch", "io")
        /\ UNCHANGED <<server, cfgAfter>>
  /\ UNCHANGED <<volume, image, live, budget, runs, snap, mig, dl, boot, trace, mainCmds, plugCmds,
                 plugSeen, failed>>

\* ------------------------------------------------------------------------
\* Specifications
\* ------------------------------------------------------------------------

Step(c) ==
  \/ Start(c)
  \/ BootCheck(c)
  \/ BootCopy(c)
  \/ BootSkeleton(c)
  \/ MainSymref(c)
  \/ MainCheckout(c)
  \/ MainConfig(c)
  \/ MainPull(c)
  \/ MigCheck(c)
  \/ MigMkdir(c)
  \/ MigCopy(c)
  \/ MigRemove(c)
  \/ BakCheck(c)
  \/ BakRemove(c)
  \/ ConfigRewrite(c)
  \/ PlugCheck(c)
  \/ PlugConfig(c)
  \/ PlugPull(c)
  \/ PlugInstall(c)
  \/ PipUpgrade(c)
  \/ ComfyCliUpgrade(c)
  \/ FrontendReqs(c)
  \/ ManagerReqs(c)
  \/ EnsureDirs(c)
  \/ Examine(c)
  \/ HfFetch(c)
  \/ HfMakedirs(c)
  \/ HfMove(c)
  \/ ExtraCmds(c)
  \/ Launch(c)

Next == \E c \in Containers : Step(c)

\* one container at a time, started any number of times up to MaxRuns
Spec == Init /\ [][Next]_vars

\* runs in succession on the same volume
SpecRerun == InitRerun /\ [][Next]_vars

\* containers started concurrently against the same volume
SpecConc == InitConc /\ [][Next]_vars

TypeOK ==
  /\ TypeVolume
  /\ image \in ImageInstalls \cup {NoInstall}
  /\ live \subseteq Containers
  /\ budget \in 1..MaxRuns
  /\ runs \in 0..budget
  /\ \A c \in Containers :
       /\ idx[c] \in 1..(NumTasks + 1)
       /\ attempted[c] \subseteq Tasks
       /\ skipped[c] \subseteq Tasks
       /\ dlFailed[c] \subseteq attempted[c]
       /\ server[c] \in {NoProc, LaunchCmd}

\* ------------------------------------------------------------------------
\* Properties
\* ------------------------------------------------------------------------

\* the model_tasks loop of container c is over (or was never entered)
OutsideLoop(c) == pc[c] \notin {"dl_loop", "hf_fetch", "hf_makedirs", "hf_move"}

InTrace(c, ev) == \E i \in 1..Len(trace[c]) : trace[c][i] = ev

IsPrefix(s, t) == Len(s) <= Len(t) /\ \A i \in 1..Len(s) : s[i] = t[i]

\* C1: a task whose destination file exists when the run starts is never
\* handed to hf_download in that run
C1_NoFetchWhenPresent ==
  \A c \in Containers : \A t \in Tasks :
    Target(t) \in atStart[c] => t \notin attempted[c]

\* a finished run that found some files present and downloaded others
C1_Witness ==
  \E c \in Containers :
    /\ pc[c] = "done"
    /\ atStart[c] # {} /\ atStart[c] # AllTargets
    /\ attempted[c] # {} /\ skipped[c] # {}

\* C2 as stated: every completed run that found the marker file absent ends
\* with the marker file present, the empty-skeleton case included
C2_MarkerAfterAnyBootstrap ==
  \A c \in Containers :
    (pc[c] = "done" /\ boot[c] \in {"copied", "skeleton"}) => marker

\* C2 amended: once the default installation has been copied to the volume
\* the marker file is present, and it is present when the run completes
C2_MarkerAfterCopy ==
  \A c \in Containers : boot[c] = "copied" => marker

\* a completed first run on an empty volume that copied the installation
C2_Witness ==
  \E c \in Containers :
    pc[c] = "done" /\ boot[c] = "copied" /\ emptyStart[c] /\ marker

\* C3: a completed run that started with a legacy directory with contents and
\* no new directory leaves no legacy directory, a new directory, and a
\* config.ini equal to the fixed content
C3_MigrationResult ==
  \A c \in Containers :
    (pc[c] = "done" /\ migCase[c] \in {"legacy_only", "legacy_own_config"})
      => /\ legacy = NoDir
         /\ mgr.exists
         /\ mgr.cfg = config_content

\* a completed run whose legacy directory held a different config.ini and
\* data files, which were carried over
C3_Witness ==
  \E c \in Containers :
    /\ pc[c] = "done"
    /\ migCase[c] = "legacy_own_config"
    /\ migrated[c]
    /\ mgr.data = {"snapshots"}

\* C4: at the end of every completed run config.ini holds the fixed content,
\* so successive runs leave identical content
C4_ConfigIdempotent ==
  \A i \in 1..Len(cfgAfter) :
    /\ cfgAfter[i] = config_content
    /\ cfgAfter[i] = cfgAfter[1]

\* two runs completed in succession on the same volume
C4_Witness == Len(cfgAfter) >= 2 /\ ConfigFile = config_content

\* C5: when the download of a task fails, every later task is still examined
\* and is downloaded unless its file is present
C5_ContinueAfterFailure ==
  \A c \in Containers : \A t \in dlFailed[c] : \A u \in Tasks :
    (u > t /\ OutsideLoop(c))
      => \/ u \in attempted[c]
         \/ u \in skipped[c] /\ Target(u) \in models

\* the first download failed and a later absent file was then downloaded
C5_Witness ==
  \E c \in Containers :
    /\ pc[c] = "done"
    /\ 1 \in dlFailed[c]
    /\ \E u \in attempted[c] : u > 1 /\ Target(u) \in models
    /\ \E u \in attempted[c] : u > 1 /\ u \in dlFailed[c]

\* C6 as stated: a run ends without launching the server only when the
\* bootstrap copy or the launch itself fails
C6_OnlyBootstrapOrLaunchAbort ==
  \A c \in Containers :
    pc[c] = "crashed" => crash[c].at \in {"bootstrap_copy", "launch"}

\* C7 as stated: the update of the backend and of the plugin is complete
\* before the configuration migration begins
C7_UpdatesBeforeMigration ==
  \A c \in Containers :
    InTrace(c, "migrate")
      => InTrace(c, "update_main_done") /\ InTrace(c, "update_plugin_done")

\* the order in which ui() goes through its steps
StepOrder ==
  <<"bootstrap", "update_main", "update_main_done", "migrate", "rewrite",
    "update_plugin", "update_plugin_done", "deps", "assets", "handoff">>

\* C7 amended: the backend update completes before the migration and the
\* rewrite; the plugin update comes after the rewrite and before the
\* dependency refresh, the asset acquisition and the handoff
C7_StepOrder ==
  \A c \in Containers : IsPrefix(trace[c], StepOrder)

\* a completed run that went through every step
C7_Witness ==
  \E c \in Containers : pc[c] = "done" /\ trace[c] = StepOrder

\* C8: a run on an empty volume in which nothing fails ends with the six
\* files present, the three fixed directives in config.ini and the server
\* launched on port 8000
C8_EndToEnd ==
  \A c \in Containers :
    (pc[c] = "done" /\ emptyStart[c] /\ ~failed[c])
      => /\ \A t \in Tasks : <<model_tasks[t][1], model_tasks[t][2]>> \in models
         /\ Cardinality(models) = 6
         /\ ConfigFile.exists
         /\ Directives(ConfigFile) = {"network_mode = private",
                                      "security_level = weak",
                                      "log_to_file = false"}
         /\ Len(ConfigFile.text) = 4
         /\ server[c].port = 8000

\* a failure-free completed run on an empty volume
C8_Witness ==
  \E c \in Containers :
    /\ pc[c] = "done" /\ emptyStart[c] /\ ~failed[c]
    /\ atStart[c] = {} /\ attempted[c] = Tasks

\* the plugin update of container c is over
PluginUpdateOver(c) == InTrace(c, "update_plugin_done")

\* C9 as stated: an existing plugin directory is probed for a detached HEAD
\* and a detached one is checked out before the pull is configured
C9_PluginLikeBackend ==
  \A c \in Containers :
    (PluginUpdateOver(c) /\ plugSeen[c] # "absent")
      => /\ plugCmds[c][1] = "symbolic-ref"
         /\ plugSeen[c] = "detached" => plugCmds[c][2] = "checkout"

\* C9 amended: an existing plugin directory gets the fast-forward-only
\* configuration and then the pull, with no detached-HEAD probe and no
\* checkout; an absent one gets an install attempt and no pull
C9_PluginUpdatePattern ==
  \A c \in Containers :
    PluginUpdateOver(c)
      => IF plugSeen[c] = "absent"
           THEN plugCmds[c] = <<"install">>
           ELSE plugCmds[c] \in {<<"config">>, <<"config", "pull">>}

\* a completed run that found the plugin on a detached HEAD and pulled
C9_Witness ==
  \E c \in Containers :
    /\ pc[c] = "done"
    /\ plugSeen[c] = "detached"
    /\ plugCmds[c] = <<"config", "pull">>
    /\ mainCmds[c][1] = "symbolic-ref"

\* the copy or the delete of the legacy directory found it gone
LostRace(c) ==
  /\ pc[c] = "crashed"
  /\ crash[c].why = "enoent"
  /\ crash[c].at \in {"copytree", "rmtree_legacy"}

====
